---- MODULE Spec2Model ----
(***************************************************************************)
(* Model of sharescript.py: a Flask-SocketIO service that runs ./foobar.sh *)
(* on a pseudo-terminal and broadcasts its raw output to every connected   *)
(* viewer, keeping a bounded replay buffer (TerminalState.terminal_data).  *)
(*                                                                         *)
(* Bytes are not enumerated one by one.  A byte string is a sequence of    *)
(* segments [src, lo, hi): the bytes lo .. hi-1 of the write or message    *)
(* named src.  Two byte strings are equal iff their canonical segment      *)
(* sequences are equal (adjacent pieces of one write are merged by Cat),   *)
(* so lengths keep their real values (4096, 512 KiB, 1 MiB).               *)
(***************************************************************************)
EXTENDS Integers, Sequences, FiniteSets, TLC

\* ---------------------------------------------------------------- bounds
NViewers == 2
MaxRuns == 2
MaxWrites == 1
MaxRequests == 2
MaxAppends == 3

Viewers == 1 .. NViewers
Runs == 1 .. MaxRuns
Fds == 1 .. MaxRuns

\* ------------------------------------------------------ program constants
Cap == 1048576
Floor == 524288
ReadSize == 4096
NotFoundMsgLen == 59
CreatedMsgLen == 52
StartMsgLen == 41
CompletionMsgLen == 57
ErrorMsgLen == 53
AlreadyMsgLen == 39

\* Sizes of one write of the child to its terminal, and of one add_data
\* call made directly on the buffer.
WriteSizes == {3, ReadSize + 904}
AppendSizes == {1, ReadSize, Floor, Cap, Cap + 1}
ReturnCodes == {0, 1}

\* ------------------------------------------------------------ byte strings
Seg(src, lo, hi) == [src |-> src, lo |-> lo, hi |-> hi]

Chunk(kind, a, b, n) == << Seg(<<kind, a, b>>, 0, n) >>

RECURSIVE BLen(_)
BLen(b) == IF b = <<>> THEN 0 ELSE (Head(b).hi - Head(b).lo) + BLen(Tail(b))

\* a + b on bytes objects.
Cat(a, b) ==
    IF a = <<>> THEN b
    ELSE IF b = <<>> THEN a
    ELSE LET x == a[Len(a)]
             y == Head(b)
         IN IF x.src = y.src /\ x.hi = y.lo
            THEN SubSeq(a, 1, Len(a) - 1) \o << Seg(x.src, x.lo, y.hi) >> \o Tail(b)
            ELSE a \o b

\* b[:n]
RECURSIVE BTake(_, _)
BTake(b, n) ==
    IF n <= 0 \/ b = <<>> THEN <<>>
    ELSE LET s == Head(b)
             l == s.hi - s.lo
         IN IF l <= n THEN << s >> \o BTake(Tail(b), n - l)
            ELSE << Seg(s.src, s.lo, s.lo + n) >>

\* b[n:]
RECURSIVE BDrop(_, _)
BDrop(b, n) ==
    IF n <= 0 \/ b = <<>> THEN b
    ELSE LET s == Head(b)
             l == s.hi - s.lo
         IN IF l <= n THEN BDrop(Tail(b), n - l)
            ELSE << Seg(s.src, s.lo + n, s.hi) >> \o Tail(b)

\* b[-n:] for n > 0
BLast(b, n) == IF BLen(b) <= n THEN b ELSE BDrop(b, BLen(b) - n)

\* base64.b64encode(x).decode('ascii') and the client's atob(): the encoded
\* text is a value of another type than the bytes; '' encodes b''.
b64encode(b) == [b64 |-> b]
atob(s) == s.b64

\* ------------------------------------------------------------------ state
VARIABLES
    is_running,      \* terminal_state.is_running
    process,         \* terminal_state.process: 0 (None) or the run whose child it is
    master_fd,       \* terminal_state.master_fd: 0 (None) or a descriptor
    terminal_data,   \* terminal_state.terminal_data
    script_exists,   \* os.path.exists("./foobar.sh")
    fdtab,           \* the server's open PTY master descriptors: fd -> run, 0 = closed
    pc,              \* run_script_thread of each run: the line it is about to execute
    loc,             \* its locals: master_fd, process, data, return_code; how it
                     \* failed, and what the request that started it found
    child,           \* the child process of each run and the slave side of its PTY
    view,            \* each viewer's page: socket, terminal, run button
    h,               \* the event handler in flight for each viewer
    hist,            \* everything appended to the buffer since the last clear_data
    ev,              \* per run, the events it has broadcast, in order
    att,             \* per viewer, bookkeeping of its last attach
    nreq,            \* the number of requests the viewers have made
    exited           \* signal_handler has run: sys.exit(0) ended the server

vars == << is_running, process, master_fd, terminal_data, script_exists, fdtab,
           pc, loc, child, view, h, hist, ev, att, nreq, exited >>

tsVars == << is_running, process, master_fd >>

NoLoc == [fd |-> 0, proc |-> 0, data |-> <<>>, rc |-> 0, failed |-> "no",
          fromIdle |-> FALSE, prev |-> 0]
NoChild == [spawned |-> FALSE, alive |-> FALSE, tty |-> FALSE, pty |-> <<>>,
            nw |-> 0, code |-> 0, sigterm |-> FALSE, trap |-> FALSE]
NoView == [connected |-> FALSE, banner |-> "welcome", term |-> <<>>, btn |-> FALSE]
NoH == [pc |-> "none", snap |-> b64encode(<<>>), saw |-> FALSE, idle |-> FALSE,
        prev |-> 0]
NoAtt == [on |-> FALSE, done |-> FALSE, expect |-> <<>>, cleared |-> FALSE]

\* A viewer whose page attached to the idle, empty session: handle_connect and
\* handle_request_state have run for it.
AttachedView == [connected |-> TRUE, banner |-> "ready", term |-> <<>>, btn |-> FALSE]
AttachedAtt == [on |-> TRUE, done |-> TRUE, expect |-> <<>>, cleared |-> FALSE]

\* TerminalState.__init__: no thread started, the script on disk or not, and
\* each viewer either away or attached to the idle session.
Init ==
    /\ is_running = FALSE
    /\ process = 0
    /\ master_fd = 0
    /\ terminal_data = <<>>
    /\ script_exists \in BOOLEAN
    /\ fdtab = [f \in Fds |-> 0]
    /\ pc = [t \in Runs |-> "none"]
    /\ loc = [t \in Runs |-> NoLoc]
    /\ child = [t \in Runs |-> NoChild]
    /\ view \in [Viewers -> {NoView, AttachedView}]
    /\ h = [v \in Viewers |-> NoH]
    /\ hist = <<>>
    /\ ev = [t \in Runs |-> <<>>]
    /\ att = [v \in Viewers |-> IF view[v].connected THEN AttachedAtt ELSE NoAtt]
    /\ nreq = 0
    /\ exited = FALSE

\* ---------------------------------------------------------- TerminalState
\* A trim that keeps the oldest bytes instead of the newest.
add_data_keeps_head(td, data) ==
    LET x == Cat(td, data)
    IN IF BLen(x) > Cap THEN BTake(x, Floor) ELSE x

\* A trim that already starts when the buffer reaches the cap.
add_data_trims_at_cap(td, data) ==
    LET x == Cat(td, data)
    IN IF BLen(x) >= Cap THEN BLast(x, Floor) ELSE x

add_data(td, data) ==
    LET x == Cat(td, data)
    IN IF BLen(x) > Cap THEN BLast(x, Floor) ELSE x

get_terminal_data(td) == b64encode(td)

clear_data(td) == <<>>

\* Bookkeeping of a clear_data call: the attached viewers have seen a clear.
NoteClear ==
    att' = [w \in Viewers |->
              IF att[w].on THEN [att[w] EXCEPT !.cleared = TRUE, !.expect = <<>>]
              ELSE att[w]]

\* The effect of one add_data call on the state.
AddData(data) ==
    /\ terminal_data' = add_data(terminal_data, data)
    /\ hist' = hist \o << data >>
    /\ att' = [v \in Viewers |->
                 IF att[v].on /\ ~att[v].cleared
                 THEN [att[v] EXCEPT !.expect = Cat(@, data)]
                 ELSE att[v]]

\* --------------------------------------------------------------- the page
\* The socket.on(...) handlers of the page.
ClientRecv(vs, m) ==
    CASE m.event = "terminal_data" ->
           [vs EXCEPT !.term = Cat(@, atob(m.data))]
      [] m.event = "terminal_cleared" ->
           [vs EXCEPT !.term = <<>>, !.banner = "cleared"]
      [] m.event = "full_terminal_data" ->
           IF atob(m.data) # <<>>
           THEN [vs EXCEPT !.term = atob(m.data), !.banner = "none"]
           ELSE [vs EXCEPT !.term = <<>>, !.banner = "ready"]
      [] m.event = "button_state" -> [vs EXCEPT !.btn = m.disabled]
      [] m.event = "script_started" -> [vs EXCEPT !.btn = TRUE]
      [] m.event = "script_finished" -> [vs EXCEPT !.btn = FALSE]

\* socketio.emit(event, ...): to every connected client.
Broadcast(m) ==
    view' = [v \in Viewers |->
               IF view[v].connected THEN ClientRecv(view[v], m) ELSE view[v]]

\* emit(event, ...) inside a handler: to the requesting client only.
EmitTo(v, m) ==
    view' = [view EXCEPT ![v] = IF view[v].connected THEN ClientRecv(@, m) ELSE @]

DataMsg(b) == [event |-> "terminal_data", data |-> b64encode(b)]

\* No run thread is alive and the flag is down.
Idle == is_running = FALSE /\ \A t \in Runs : pc[t] \in {"none", "done"}

Unused == {t \in Runs : pc[t] = "none"}

Finished == {t \in Runs : pc[t] = "done"}

\* ----------------------------------------------------------- the handlers
\* A viewer opens the page: the socket joins the broadcast set, handle_connect
\* sends button_state to it, and the page's connect handler asks for
\* request_state.
handle_connect(v) ==
    /\ ~exited
    /\ nreq < MaxRequests
    /\ nreq' = nreq + 1
    /\ ~view[v].connected
    /\ h[v].pc = "none"
    /\ view' = [view EXCEPT ![v] =
                 ClientRecv([@ EXCEPT !.connected = TRUE],
                            [event |-> "button_state", disabled |-> is_running])]
    /\ h' = [h EXCEPT ![v] = [NoH EXCEPT !.pc = "rs342"]]
    /\ UNCHANGED << exited, tsVars, terminal_data, script_exists, fdtab, pc,
                    loc, child,
                    hist, ev, att >>

\* handle_request_state, line 342: the snapshot.
handle_request_state(v) ==
    /\ h[v].pc = "rs342"
    /\ h' = [h EXCEPT ![v].pc = "rs343", ![v].snap = get_terminal_data(terminal_data)]
    /\ att' = [att EXCEPT ![v] = [on |-> TRUE, done |-> FALSE,
                                  expect |-> terminal_data, cleared |-> FALSE]]
    /\ UNCHANGED << exited, tsVars, terminal_data, script_exists, fdtab, pc,
                    loc, child,
                    view, hist, ev, nreq >>

\* line 343: the snapshot is sent to the requesting viewer.
handle_request_state_full(v) ==
    /\ h[v].pc = "rs343"
    /\ EmitTo(v, [event |-> "full_terminal_data", data |-> h[v].snap])
    /\ h' = [h EXCEPT ![v].pc = "rs344", ![v].snap = b64encode(<<>>)]
    /\ att' = [att EXCEPT ![v].done = TRUE]
    /\ UNCHANGED << exited, tsVars, terminal_data, script_exists, fdtab, pc,
                    loc, child,
                    hist, ev, nreq >>

\* line 344: is_running is read for the button_state message ...
handle_request_state_read(v) ==
    /\ h[v].pc = "rs344"
    /\ h' = [h EXCEPT ![v].pc = "rs344e", ![v].saw = is_running]
    /\ UNCHANGED << exited, tsVars, terminal_data, script_exists, fdtab, pc,
                    loc, child,
                    view, hist, ev, att, nreq >>

\* ... and the message is sent.
handle_request_state_button(v) ==
    /\ h[v].pc = "rs344e"
    /\ EmitTo(v, [event |-> "button_state", disabled |-> h[v].saw])
    /\ h' = [h EXCEPT ![v] = NoH]
    /\ UNCHANGED << exited, tsVars, terminal_data, script_exists, fdtab, pc,
                    loc, child,
                    hist, ev, att, nreq >>

handle_disconnect(v) ==
    /\ nreq < MaxRequests
    /\ nreq' = nreq + 1
    /\ view[v].connected
    /\ h[v].pc = "none"
    /\ view' = [view EXCEPT ![v] = NoView]
    /\ att' = [att EXCEPT ![v] = NoAtt]
    /\ UNCHANGED << exited, tsVars, terminal_data, script_exists, fdtab, pc,
                    loc, child,
                    h, hist, ev >>

\* handle_run_script, line 348: the check of is_running.  A request is taken
\* only while a run of the model is left for it to start.
handle_run_script(v) ==
    /\ nreq < MaxRequests
    /\ nreq' = nreq + 1
    /\ view[v].connected
    /\ h[v].pc = "none"
    /\ Cardinality(Unused) > Cardinality({w \in Viewers : h[w].pc = "r356"})
    /\ h' = [h EXCEPT ![v] = [NoH EXCEPT !.pc = IF is_running THEN "r350" ELSE "r356",
                                         !.saw = is_running, !.idle = Idle,
                                         !.prev = Cardinality(Finished)]]
    /\ UNCHANGED << exited, tsVars, terminal_data, script_exists, fdtab, pc,
                    loc, child,
                    view, hist, ev, att >>

\* lines 350-353: the error message, to the caller only.
handle_run_script_reject(v) ==
    /\ h[v].pc = "r350"
    /\ EmitTo(v, DataMsg(Chunk("already", 0, 0, AlreadyMsgLen)))
    /\ h' = [h EXCEPT ![v] = NoH]
    /\ UNCHANGED << exited, tsVars, terminal_data, script_exists, fdtab, pc,
                    loc, child,
                    hist, ev, att, nreq >>

\* lines 356-358: threading.Thread(target=run_script_thread).start()
handle_run_script_start(v) ==
    /\ h[v].pc = "r356"
    /\ Unused # {}
    /\ LET t == CHOOSE x \in Unused : \A y \in Unused : x <= y
       IN /\ pc' = [pc EXCEPT ![t] = "l368"]
          /\ loc' = [loc EXCEPT ![t] = [NoLoc EXCEPT !.fromIdle = h[v].idle,
                                                      !.prev = h[v].prev]]
    /\ h' = [h EXCEPT ![v] = NoH]
    /\ UNCHANGED << exited, tsVars, terminal_data, script_exists, fdtab, child,
                    view, hist, ev, att, nreq >>

\* A clear that also marks the session idle.
handle_clear_terminal_stops_run(v) ==
    /\ nreq < MaxRequests
    /\ nreq' = nreq + 1
    /\ view[v].connected
    /\ h[v].pc = "none"
    /\ terminal_data' = clear_data(terminal_data)
    /\ hist' = <<>>
    /\ NoteClear
    /\ is_running' = FALSE
    /\ h' = [h EXCEPT ![v] = [NoH EXCEPT !.pc = "cl363"]]
    /\ UNCHANGED << exited, process, master_fd, script_exists, fdtab, pc, loc,
                    child,
                    view, ev >>

\* handle_clear_terminal, line 362.
handle_clear_terminal(v) ==
    /\ nreq < MaxRequests
    /\ nreq' = nreq + 1
    /\ view[v].connected
    /\ h[v].pc = "none"
    /\ terminal_data' = clear_data(terminal_data)
    /\ hist' = <<>>
    /\ NoteClear
    /\ h' = [h EXCEPT ![v] = [NoH EXCEPT !.pc = "cl363"]]
    /\ UNCHANGED << exited, tsVars, script_exists, fdtab, pc, loc, child, view,
                    ev >>

\* line 363: socketio.emit('terminal_cleared')
handle_clear_terminal_emit(v) ==
    /\ h[v].pc = "cl363"
    /\ Broadcast([event |-> "terminal_cleared"])
    /\ h' = [h EXCEPT ![v] = NoH]
    /\ UNCHANGED << exited, tsVars, terminal_data, script_exists, fdtab, pc,
                    loc, child,
                    hist, ev, att, nreq >>

\* ------------------------------------------------------ run_script_thread
Goto(t, l) == pc' = [pc EXCEPT ![t] = l]

Emitted(t, k) == ev' = [ev EXCEPT ![t] = Append(@, k)]

\* The PTY a descriptor of this process refers to now: 0 when it is closed.
PtyOf(fd) == IF fd = 0 THEN 0 ELSE fdtab[fd]

FreeFds == {f \in Fds : fdtab[f] = 0}

\* line 368
run_set_running(t) ==
    /\ pc[t] = "l368"
    /\ is_running' = TRUE
    /\ Goto(t, "l369")
    /\ UNCHANGED << exited, process, master_fd, terminal_data, script_exists,
                    fdtab, loc,
                    child, view, h, hist, ev, att, nreq >>

\* A thread that goes on to the PTY without the started event.
run_emit_started_skipped(t) ==
    /\ pc[t] = "l369"
    /\ Goto(t, "l373")
    /\ UNCHANGED << exited, tsVars, terminal_data, script_exists, fdtab, loc,
                    child, view,
                    h, hist, ev, att, nreq >>

\* line 369
run_emit_started(t) ==
    /\ pc[t] = "l369"
    /\ Broadcast([event |-> "script_started"])
    /\ Emitted(t, "started")
    /\ Goto(t, "l373")
    /\ UNCHANGED << exited, tsVars, terminal_data, script_exists, fdtab, loc,
                    child, h,
                    hist, att, nreq >>

\* line 373: pty.openpty() returns the lowest closed descriptor, or raises.
run_openpty(t) ==
    /\ pc[t] = "l373"
    /\ \/ /\ FreeFds # {}
          /\ LET fd == CHOOSE f \in FreeFds : \A g \in FreeFds : f <= g
             IN /\ fdtab' = [fdtab EXCEPT ![fd] = t]
                /\ loc' = [loc EXCEPT ![t].fd = fd]
          /\ child' = [child EXCEPT ![t] = [NoChild EXCEPT !.tty = TRUE]]
          /\ Goto(t, "l374")
       \/ /\ loc' = [loc EXCEPT ![t].failed = "spawn"]
          /\ Goto(t, "l463")
          /\ UNCHANGED << fdtab, child >>
    /\ UNCHANGED << exited, tsVars, terminal_data, script_exists, view, h,
                    hist, ev, att, nreq >>

\* lines 374-382: the shared field is set, stty sizes the slave, and
\* os.path.exists(script_path) picks the branch
run_set_master_fd(t) ==
    /\ pc[t] = "l374"
    /\ master_fd' = loc[t].fd
    /\ Goto(t, IF script_exists THEN "l394" ELSE "l384")
    /\ UNCHANGED << exited, is_running, process, terminal_data, script_exists,
                    fdtab, loc,
                    child, view, h, hist, ev, att, nreq >>

\* One add_data(msg) of the thread, then on to line l.
RunAdd(t, at, msg, l) ==
    /\ pc[t] = at
    /\ AddData(msg)
    /\ Goto(t, l)
    /\ UNCHANGED << exited, tsVars, script_exists, fdtab, loc, child, view, h,
                    ev, nreq >>

\* One socketio.emit('terminal_data', ...) of the thread, then on to line l.
RunEmit(t, at, msg, k, l) ==
    /\ pc[t] = at
    /\ Broadcast(DataMsg(msg))
    /\ Emitted(t, k)
    /\ Goto(t, l)
    /\ UNCHANGED << exited, tsVars, terminal_data, script_exists, fdtab, loc,
                    child, h,
                    hist, att, nreq >>

\* One message of the thread: add_data(msg) and the emit that follows it.
RunSay(t, at, msg, k, l) ==
    /\ pc[t] = at
    /\ AddData(msg)
    /\ Broadcast(DataMsg(msg))
    /\ Emitted(t, k)
    /\ Goto(t, l)
    /\ UNCHANGED << exited, tsVars, script_exists, fdtab, loc, child, h, nreq >>

NotFoundMsg == Chunk("notfound", 0, 0, NotFoundMsgLen)
CreatedMsg == Chunk("created", 0, 0, CreatedMsgLen)
StartMsg(t) == Chunk("start", t, 0, StartMsgLen)
CompletionMsg(t, rc) == Chunk("completion", t, rc, CompletionMsgLen)
ErrorMsg(t) == Chunk("error", t, 0, ErrorMsgLen)

\* lines 383-387: the script is missing
run_notfound(t) == RunSay(t, "l384", NotFoundMsg, "info", "l390")

\* create_sample_script: the file is written and made executable (lines
\* 539-543), then the message (lines 545-549)
create_sample_script(t) ==
    /\ pc[t] = "l390"
    /\ script_exists' = TRUE
    /\ AddData(CreatedMsg)
    /\ Broadcast(DataMsg(CreatedMsg))
    /\ Emitted(t, "info")
    /\ Goto(t, "l394")
    /\ UNCHANGED << exited, tsVars, fdtab, loc, child, h, nreq >>

\* lines 393-397
run_start_msg(t) == RunSay(t, "l394", StartMsg(t), "info", "l406")

\* line 406: subprocess.Popen starts the child in its own session, or raises.
run_popen(t) ==
    /\ pc[t] = "l406"
    /\ \/ /\ child' = [child EXCEPT ![t] = [@ EXCEPT !.spawned = TRUE, !.alive = TRUE]]
          /\ loc' = [loc EXCEPT ![t].proc = t]
          /\ Goto(t, "l415")
       \/ /\ loc' = [loc EXCEPT ![t].failed = "spawn"]
          /\ Goto(t, "l463")
          /\ UNCHANGED child
    /\ UNCHANGED << exited, tsVars, terminal_data, script_exists, fdtab, view,
                    h, hist, ev,
                    att, nreq >>

\* line 421: while process.poll() is None.  Once the child has exited the
\* loop ends and process.wait() (line 441) returns its code at once.
PollPc(t) == IF child[t].alive THEN "l424" ELSE "l445"

PollLoc(t) ==
    IF child[t].alive THEN [loc[t] EXCEPT !.data = <<>>]
    ELSE [loc[t] EXCEPT !.data = <<>>, !.rc = child[t].code]

\* lines 415-421: the shared field is set, the slave is closed in the parent,
\* and the loop is entered
run_set_process(t) ==
    /\ pc[t] = "l415"
    /\ process' = loc[t].proc
    /\ Goto(t, PollPc(t))
    /\ loc' = [loc EXCEPT ![t] = PollLoc(t)]
    /\ UNCHANGED << exited, is_running, master_fd, terminal_data,
                    script_exists, fdtab,
                    child, view, h, hist, ev, att, nreq >>

\* lines 424-438: select with the 0.1 s timeout, then os.read(master_fd, 4096).
\* A closed descriptor, or a terminal whose slave side is closed and which
\* holds no data, raises OSError: break.  A timeout goes back to line 421.
run_select_read(t) ==
    /\ pc[t] = "l424"
    /\ LET p == PtyOf(loc[t].fd)
       IN IF p = 0 \/ (child[p].pty = <<>> /\ ~child[p].tty)
          THEN /\ loc' = [loc EXCEPT ![t].failed = "read"]
               /\ Goto(t, "l441")
               /\ UNCHANGED child
          ELSE IF child[p].pty = <<>>
          THEN /\ Goto(t, PollPc(t))
               /\ loc' = [loc EXCEPT ![t] = PollLoc(t)]
               /\ UNCHANGED child
          ELSE /\ loc' = [loc EXCEPT ![t].data = BTake(child[p].pty, ReadSize)]
               /\ child' = [child EXCEPT ![p].pty = BDrop(@, ReadSize)]
               /\ Goto(t, "l430")
    /\ UNCHANGED << exited, tsVars, terminal_data, script_exists, fdtab, view,
                    h, hist, ev,
                    att, nreq >>

\* line 430
run_add_output(t) == RunAdd(t, "l430", loc[t].data, "l432")

\* lines 432-434, and back to line 421
run_emit_output(t) ==
    /\ pc[t] = "l432"
    /\ Broadcast(DataMsg(loc[t].data))
    /\ Emitted(t, "data")
    /\ Goto(t, PollPc(t))
    /\ loc' = [loc EXCEPT ![t] = PollLoc(t)]
    /\ UNCHANGED << exited, tsVars, terminal_data, script_exists, fdtab, child,
                    h, hist,
                    att, nreq >>

\* line 441 after a break: process.wait() returns once the child has exited
run_wait(t) ==
    /\ pc[t] = "l441"
    /\ ~child[t].alive
    /\ loc' = [loc EXCEPT ![t].rc = child[t].code]
    /\ Goto(t, "l445")
    /\ UNCHANGED << exited, tsVars, terminal_data, script_exists, fdtab, child,
                    view, h,
                    hist, ev, att, nreq >>

\* lines 444-452: one os.read(master_fd, 4096); OSError is passed over.  The
\* read blocks while the terminal is empty and its slave side is open.
run_drain_read(t) ==
    /\ pc[t] = "l445"
    /\ LET p == PtyOf(loc[t].fd)
       IN IF p = 0 \/ (child[p].pty = <<>> /\ ~child[p].tty)
          THEN /\ Goto(t, "l456")
               /\ UNCHANGED << loc, child >>
          ELSE /\ child[p].pty # <<>>
               /\ loc' = [loc EXCEPT ![t].data = BTake(child[p].pty, ReadSize)]
               /\ child' = [child EXCEPT ![p].pty = BDrop(@, ReadSize)]
               /\ Goto(t, "l447")
    /\ UNCHANGED << exited, tsVars, terminal_data, script_exists, fdtab, view,
                    h, hist, ev,
                    att, nreq >>

\* lines 447-450
run_add_remaining(t) == RunAdd(t, "l447", loc[t].data, "l448")
run_emit_remaining(t) == RunEmit(t, "l448", loc[t].data, "data", "l456")

\* A completion message that always reports code 0.
run_completion_msg_code0(t) ==
    RunSay(t, "l456", CompletionMsg(t, 0), "completion", "l470")

\* lines 455-459
run_completion_msg(t) ==
    RunSay(t, "l456", CompletionMsg(t, loc[t].rc), "completion", "l470")

\* An except clause that reports nothing.
run_error_swallowed(t) ==
    /\ pc[t] = "l463"
    /\ Goto(t, "l470")
    /\ UNCHANGED << exited, tsVars, terminal_data, script_exists, fdtab, loc,
                    child, view,
                    h, hist, ev, att, nreq >>

\* lines 461-466: except Exception
run_error_msg(t) == RunSay(t, "l463", ErrorMsg(t), "error", "l470")

\* lines 470-474: the descriptor the shared field holds is closed
run_close_master(t) ==
    /\ pc[t] = "l470"
    /\ fdtab' = IF master_fd # 0 THEN [fdtab EXCEPT ![master_fd] = 0] ELSE fdtab
    /\ Goto(t, "l476")
    /\ UNCHANGED << exited, tsVars, terminal_data, script_exists, loc, child,
                    view, h, hist,
                    ev, att, nreq >>

\* A finally clause that leaves the run flag up.
run_keep_running(t) ==
    /\ pc[t] = "l476"
    /\ Goto(t, "l477")
    /\ UNCHANGED << exited, tsVars, terminal_data, script_exists, fdtab, loc,
                    child, view,
                    h, hist, ev, att, nreq >>

\* line 476
run_clear_running(t) ==
    /\ pc[t] = "l476"
    /\ is_running' = FALSE
    /\ Goto(t, "l477")
    /\ UNCHANGED << exited, process, master_fd, terminal_data, script_exists,
                    fdtab, loc,
                    child, view, h, hist, ev, att, nreq >>

\* line 477
run_clear_process(t) ==
    /\ pc[t] = "l477"
    /\ process' = 0
    /\ Goto(t, "l478")
    /\ UNCHANGED << exited, is_running, master_fd, terminal_data,
                    script_exists, fdtab, loc,
                    child, view, h, hist, ev, att, nreq >>

\* line 478
run_clear_master_fd(t) ==
    /\ pc[t] = "l478"
    /\ master_fd' = 0
    /\ Goto(t, "l479")
    /\ UNCHANGED << exited, is_running, process, terminal_data, script_exists,
                    fdtab, loc,
                    child, view, h, hist, ev, att, nreq >>

\* line 479: the thread ends; its locals are gone
run_emit_finished(t) ==
    /\ pc[t] = "l479"
    /\ Broadcast([event |-> "script_finished"])
    /\ Emitted(t, "finished")
    /\ Goto(t, "done")
    /\ loc' = [loc EXCEPT ![t] = [NoLoc EXCEPT !.failed = loc[t].failed,
                                               !.fromIdle = loc[t].fromIdle,
                                               !.prev = loc[t].prev]]
    /\ UNCHANGED << exited, tsVars, terminal_data, script_exists, fdtab, child,
                    h, hist,
                    att, nreq >>

\* ------------------------------------------------------- the child process
\* The script writes n bytes to its terminal.
child_write(t, n) ==
    /\ child[t].alive
    /\ child[t].tty
    /\ child[t].nw < MaxWrites
    /\ \E f \in Fds : fdtab[f] = t
    /\ child' = [child EXCEPT ![t].pty = Cat(@, Chunk("out", t, child[t].nw + 1, n)),
                              ![t].nw = @ + 1]
    /\ UNCHANGED << exited, tsVars, terminal_data, script_exists, fdtab, pc,
                    loc, view, h,
                    hist, ev, att, nreq >>

\* The script closes its terminal descriptors and goes on running.
child_close_tty(t) ==
    /\ child[t].alive
    /\ child[t].tty
    /\ child' = [child EXCEPT ![t].tty = FALSE]
    /\ UNCHANGED << exited, tsVars, terminal_data, script_exists, fdtab, pc,
                    loc, view, h,
                    hist, ev, att, nreq >>

\* The script exits with code c.
child_exit(t, c) ==
    /\ child[t].alive
    /\ child' = [child EXCEPT ![t].alive = FALSE, ![t].tty = FALSE, ![t].code = c]
    /\ UNCHANGED << exited, tsVars, terminal_data, script_exists, fdtab, pc,
                    loc, view, h,
                    hist, ev, att, nreq >>

\* The script runs trap '' TERM: from now on it ignores the signal.
child_trap_term(t) ==
    /\ child[t].alive
    /\ ~child[t].trap
    /\ ~child[t].sigterm
    /\ child' = [child EXCEPT ![t].trap = TRUE]
    /\ UNCHANGED << exited, tsVars, terminal_data, script_exists, fdtab, pc,
                    loc, view,
                    h, hist, ev, att, nreq >>

\* SIGTERM ends a script that does not ignore it: Popen's returncode is -15.
child_term_exit(t) ==
    /\ child[t].alive
    /\ child[t].sigterm
    /\ ~child[t].trap
    /\ child' = [child EXCEPT ![t].alive = FALSE, ![t].tty = FALSE, ![t].code = -15]
    /\ UNCHANGED << exited, tsVars, terminal_data, script_exists, fdtab, pc,
                    loc, view,
                    h, hist, ev, att, nreq >>

\* ---------------------------------------------------------------- shutdown
\* signal_handler, lines 551-559: if terminal_state.process is set, SIGTERM goes
\* to the process group of that child (ProcessLookupError, for a child that is
\* gone, is passed over); then sys.exit(0) ends the server: its daemon threads
\* stop where they are, its sockets and descriptors are closed.  The children,
\* each in a session of its own (preexec_fn=os.setsid), live on.
signal_handler ==
    /\ ~exited
    /\ exited' = TRUE
    /\ child' = IF process # 0 /\ child[process].alive
                THEN [child EXCEPT ![process].sigterm = TRUE]
                ELSE child
    /\ pc' = [t \in Runs |-> IF pc[t] \in {"none", "done"} THEN pc[t] ELSE "killed"]
    /\ fdtab' = [f \in Fds |-> 0]
    /\ view' = [v \in Viewers |-> [view[v] EXCEPT !.connected = FALSE]]
    /\ h' = [v \in Viewers |-> NoH]
    /\ UNCHANGED << tsVars, terminal_data, script_exists, loc, hist, ev, att,
                    nreq >>

\* ---------------------------------------------------------- specification
AttachStep(v) ==
    \/ handle_connect(v)
    \/ handle_request_state(v)
    \/ handle_request_state_full(v)
    \/ handle_request_state_read(v)
    \/ handle_request_state_button(v)

RunRequestStep(v) ==
    \/ handle_run_script(v)
    \/ handle_run_script_reject(v)
    \/ handle_run_script_start(v)

ClearStep(v) ==
    \/ handle_clear_terminal(v)
    \/ handle_clear_terminal_emit(v)

\* The steps of run_script_thread that a script printing nothing leads to.
QuietRunStep(t) ==
    \/ run_set_running(t)
    \/ run_emit_started(t)
    \/ run_openpty(t)
    \/ run_set_master_fd(t)
    \/ run_notfound(t)
    \/ create_sample_script(t)
    \/ run_start_msg(t)
    \/ run_popen(t)
    \/ run_set_process(t)
    \/ run_select_read(t)
    \/ run_wait(t)
    \/ run_drain_read(t)
    \/ run_completion_msg(t)
    \/ run_error_msg(t)
    \/ run_close_master(t)
    \/ run_clear_running(t)
    \/ run_clear_process(t)
    \/ run_clear_master_fd(t)
    \/ run_emit_finished(t)

RunStep(t) ==
    \/ QuietRunStep(t)
    \/ run_add_output(t)
    \/ run_emit_output(t)
    \/ run_add_remaining(t)
    \/ run_emit_remaining(t)

\* A script that prints nothing.
QuietChildStep(t) ==
    \/ child_close_tty(t)
    \/ \E c \in ReturnCodes : child_exit(t, c)

ChildStep(t) ==
    \/ \E n \in WriteSizes : child_write(t, n)
    \/ QuietChildStep(t)

\* Every interleaving of the viewers' requests, the run threads and the
\* children.
Next ==
    \/ \E v \in Viewers : AttachStep(v) \/ RunRequestStep(v) \/ ClearStep(v)
    \/ \E v \in Viewers : handle_disconnect(v)
    \/ \E t \in Runs : RunStep(t)
    \/ \E t \in Runs : ChildStep(t)

Spec == Init /\ [][Next]_vars

\* The viewers attach and ask for runs of a script that prints nothing;
\* nobody clears or leaves.
NextRun ==
    \/ \E v \in Viewers : AttachStep(v) \/ RunRequestStep(v)
    \/ \E t \in Runs : QuietRunStep(t)
    \/ \E t \in Runs : QuietChildStep(t)

SpecRun == Init /\ [][NextRun]_vars

\* A request that does not race with a run: the flag is up, or no run thread is
\* alive and no accepted request is waiting to start one.
OneAtATime == is_running \/ (Idle /\ \A w \in Viewers : h[w].pc # "r356")

\* Runs are asked for one at a time; viewers attach, clear and leave around
\* them, and the script prints.
NextView ==
    \/ \E v \in Viewers : AttachStep(v) \/ ClearStep(v)
    \/ \E v \in Viewers : handle_disconnect(v)
    \/ \E v \in Viewers : handle_run_script(v) /\ OneAtATime
    \/ \E v \in Viewers : handle_run_script_reject(v) \/ handle_run_script_start(v)
    \/ \E t \in Runs : RunStep(t)
    \/ \E t \in Runs : ChildStep(t)

SpecView == Init /\ [][NextView]_vars

\* The replay buffer on its own: add_data and clear_data called directly,
\* with chunks of any of AppendSizes.
buffer_add(n) ==
    /\ Len(hist) < MaxAppends
    /\ AddData(Chunk("append", Len(hist) + 1, n, n))
    /\ UNCHANGED << exited, tsVars, script_exists, fdtab, pc, loc, child, view,
                    h, ev, nreq >>

buffer_clear ==
    /\ terminal_data' = clear_data(terminal_data)
    /\ hist' = <<>>
    /\ NoteClear
    /\ UNCHANGED << exited, tsVars, script_exists, fdtab, pc, loc, child, view,
                    h, ev, nreq >>

\* get_terminal_data called directly: the caller keeps what it returns.
buffer_snapshot ==
    /\ h' = [h EXCEPT ![1].snap = get_terminal_data(terminal_data)]
    /\ UNCHANGED << exited, tsVars, terminal_data, script_exists, fdtab, pc,
                    loc, child,
                    view, hist, ev, att, nreq >>

NextBuf ==
    \/ \E n \in AppendSizes : buffer_add(n)
    \/ buffer_clear

SpecBuf == Init /\ [][NextBuf]_vars

\* The same, with snapshots taken in between.
NextBufRead ==
    \/ \E n \in AppendSizes : buffer_add(n)
    \/ buffer_clear
    \/ buffer_snapshot

SpecBufRead == Init /\ [][NextBufRead]_vars

\* Runs asked for one at a time, of a script that prints and may ignore
\* SIGTERM; the server is shut down at any moment.
NextShut ==
    \/ \E v \in Viewers : AttachStep(v)
    \/ \E v \in Viewers : handle_run_script(v) /\ OneAtATime
    \/ \E v \in Viewers : handle_run_script_reject(v) \/ handle_run_script_start(v)
    \/ \E t \in Runs : RunStep(t)
    \/ \E t \in Runs : ChildStep(t)
    \/ \E t \in Runs : child_trap_term(t) \/ child_term_exit(t)
    \/ signal_handler

SpecShut == Init /\ [][NextShut]_vars

\* The scheduler runs every thread that can take a step, and a delivered
\* SIGTERM ends a script that does not ignore it.
FairSpecShut ==
    /\ SpecShut
    /\ \A t \in Runs : WF_vars(RunStep(t))
    /\ \A t \in Runs : WF_vars(child_term_exit(t))

\* The viewers stay as they are, attached since the session was idle and
\* empty or away; they ask for runs one at a time and clear the terminal
\* while the script prints.
NextClear ==
    \/ \E v \in Viewers : ClearStep(v)
    \/ \E v \in Viewers : handle_run_script(v) /\ OneAtATime
    \/ \E v \in Viewers : handle_run_script_reject(v) \/ handle_run_script_start(v)
    \/ \E t \in Runs : RunStep(t)
    \/ \E t \in Runs : ChildStep(t)

SpecClear == Init /\ [][NextClear]_vars

\* A request that finds the flag up, or that comes when every run thread has
\* ended or is past line 476 of its cleanup, and no accepted request is waiting
\* to start a thread.
AfterLowering ==
    \/ is_running
    \/ /\ \A t \in Runs : pc[t] \in {"none", "done", "l477", "l478", "l479"}
       /\ \A w \in Viewers : h[w].pc # "r356"

\* Runs of a script that prints nothing, asked for one after the other: the
\* next request may come while the previous run is still cleaning up.
NextBackToBack ==
    \/ \E v \in Viewers : handle_run_script(v) /\ AfterLowering
    \/ \E v \in Viewers : handle_run_script_reject(v) \/ handle_run_script_start(v)
    \/ \E t \in Runs : QuietRunStep(t)
    \/ \E t \in Runs : QuietChildStep(t)

SpecBackToBack == Init /\ [][NextBackToBack]_vars

\* ------------------------------------------------------------- properties
Active == {t \in Runs : pc[t] \notin {"none", "done"}}

Last(q) == q[Len(q)]

Has(q, x) == \E i \in 1 .. Len(q) : q[i] = x

\* C1: of the run requests that arrive while the session is idle, exactly one
\* starts a run thread; the others are told the script is already running.
\* So no two live run threads were both started by requests that found the
\* session idle.
C1_OneRunFromIdle ==
    Cardinality({t \in Active : loc[t].fromIdle}) <= 1

\* C2: at most one child process spawned by the session is alive.
C2_AtMostOneChild ==
    Cardinality({t \in Runs : child[t].alive}) <= 1

\* The bytes of the stream on a page: what it shows, less the 'already
\* running' notes sent to that page alone.
Stream(term) == SelectSeq(term, LAMBDA s : s.src[1] # "already")

\* A chunk has been appended to the buffer and is not broadcast yet.
PairInFlight == \E t \in Runs : pc[t] \in {"l432", "l448"}

\* C3: a viewer that attached ends up with the replay buffer as it was at the
\* snapshot followed by every chunk appended after it, once each and in order
\* (stated for viewers that saw no clear since, when no chunk is between its
\* append and its broadcast).
C3_SnapshotThenLive ==
    \A v \in Viewers :
        (view[v].connected /\ att[v].done /\ ~att[v].cleared /\ ~PairInFlight)
            => Stream(view[v].term) = att[v].expect

\* The reader of run t has stopped: the drain read and what it appends are
\* over.
ReaderStopped(t) == pc[t] \in {"l456", "l470", "l476", "l477", "l478", "l479", "done"}

\* C4: when the reader stops after the child exited, no byte the child wrote
\* is left unread in the PTY.
C4_NoOutputLost ==
    \A t \in Runs :
        (child[t].spawned /\ ReaderStopped(t) /\ loc[t].failed = "no")
            => child[t].pty = <<>>

\* Everything appended since the last clear_data, as one byte string.
RECURSIVE Flat(_)
Flat(q) == IF q = <<>> THEN <<>> ELSE Cat(Head(q), Flat(Tail(q)))

\* b is a contiguous suffix of full: nothing, or the end of one segment of
\* full followed by all the segments after it.
IsSuffix(b, full) ==
    \/ b = <<>>
    \/ /\ Len(b) <= Len(full)
       /\ LET k == Len(full) - Len(b)
          IN /\ \A i \in 2 .. Len(b) : b[i] = full[k + i]
             /\ b[1].src = full[k + 1].src
             /\ b[1].hi = full[k + 1].hi
             /\ b[1].lo >= full[k + 1].lo
             /\ b[1].lo < b[1].hi

\* C5: the replay buffer is a contiguous suffix of everything appended since
\* the last clear_data, and never longer than the cap.
C5_SuffixWithinCap ==
    /\ IsSuffix(terminal_data, Flat(hist))
    /\ BLen(terminal_data) <= Cap

\* The cap was exceeded and the buffer cut back to the floor.
C5_Witness ==
    /\ BLen(Flat(hist)) > Cap
    /\ BLen(terminal_data) = Floor
    /\ Len(terminal_data) >= 2

\* What a clear request must leave alone: the run flag, the process handle,
\* the PTY descriptor, the run threads, the children and the descriptors.
RunState == << is_running, process, master_fd, pc, loc, child, fdtab >>

\* C6: a clear request is taken in every session state; it empties the replay
\* buffer (a snapshot taken next is the encoding of nothing), then every
\* connected viewer gets the cleared event; neither step touches is_running,
\* the process handle, the PTY descriptor or the run in progress.
C6_ClearLeavesRunAlone ==
    /\ [](\A v \in Viewers :
            (view[v].connected /\ h[v].pc = "none" /\ nreq < MaxRequests)
                => ENABLED handle_clear_terminal(v))
    /\ [][\A v \in Viewers :
            /\ handle_clear_terminal(v) =>
                 /\ get_terminal_data(terminal_data') = b64encode(<<>>)
                 /\ UNCHANGED RunState
            /\ handle_clear_terminal_emit(v) =>
                 /\ \A w \in Viewers :
                      view[w].connected =>
                          view'[w].term = <<>> /\ view'[w].banner = "cleared"
                 /\ UNCHANGED << RunState, terminal_data >>]_vars

\* A viewer was shown the clear in the middle of a run and has received
\* output of the child since.
C6_Witness ==
    \E v \in Viewers :
        /\ view[v].banner = "cleared"
        /\ \E i \in 1 .. Len(view[v].term) : view[v].term[i].src[1] = "out"
        /\ \E i \in 1 .. Len(terminal_data) : terminal_data[i].src[1] = "out"
        /\ is_running

\* C7: a run request that arrives while the session is not idle is answered
\* with one chunk sent to the caller only; it starts no thread and changes
\* neither the session fields nor the replay buffer nor another viewer's page.
C7_NotIdleRejected ==
    [][\A v \in Viewers :
         (h[v].pc \in {"r350", "r356"} /\ ~h[v].idle /\ h'[v].pc = "none")
             => /\ pc' = pc
                /\ UNCHANGED << tsVars, terminal_data >>
                /\ \A w \in Viewers \ {v} : view'[w] = view[w]
                /\ view'[v].term =
                       Cat(view[v].term, Chunk("already", 0, 0, AlreadyMsgLen))]_vars

\* C8: a run whose spawn failed has broadcast the error chunk and then, last,
\* the finished event, after appending the error chunk to the replay buffer;
\* once no run thread is left the session is idle again (flag down, handles
\* cleared), so that the next run request is accepted.
C8_SpawnFailureReturnsToIdle ==
    \A t \in Runs :
        (loc[t].failed = "spawn" /\ pc[t] = "done")
            => /\ Len(ev[t]) >= 2
               /\ ev[t][Len(ev[t]) - 1] = "error"
               /\ Last(ev[t]) = "finished"
               /\ Has(hist, ErrorMsg(t))
               /\ Active = {} => (is_running = FALSE /\ process = 0 /\ master_fd = 0)

\* After a failed spawn has been cleaned up, a later request started a run.
C8_Witness ==
    \E t \in Runs, u \in Runs :
        /\ loc[t].failed = "spawn" /\ pc[t] = "done"
        /\ Has(terminal_data, ErrorMsg(t)[1])
        /\ u # t /\ pc[u] = "l369" /\ loc[u].prev = 1

\* C9 as claimed: a started event has been broadcast only for runs whose child
\* was spawned.
C9_StartedOnlyAfterSpawn ==
    \A t \in Runs : Has(ev[t], "started") => child[t].spawned

\* C9 as the code has it: every run broadcasts exactly one started event, as
\* its first broadcast, right after it raised is_running and before it tries
\* to spawn; so every spawned child follows its started event, and a run whose
\* spawn fails has broadcast one too.
C9_StartedBeforeSpawnAttempt ==
    \A t \in Runs :
        /\ pc[t] \in {"none", "l368", "l369"} => ev[t] = <<>>
        /\ pc[t] \notin {"none", "l368", "l369"} =>
              /\ ev[t] # <<>>
              /\ ev[t][1] = "started"
              /\ \A i \in 2 .. Len(ev[t]) : ev[t][i] # "started"
        /\ (child[t].spawned \/ loc[t].failed = "spawn") => Has(ev[t], "started")

\* A run whose spawn failed, with its started event broadcast before.
C9_Witness ==
    \E t \in Runs :
        /\ loc[t].failed = "spawn"
        /\ ~child[t].spawned
        /\ ev[t][1] = "started"

\* The scheduler runs every thread that can take a step, and the script
\* comes to an end.
FairSpecView ==
    /\ SpecView
    /\ \A t \in Runs : WF_vars(RunStep(t))
    /\ \A t \in Runs : WF_vars(\E c \in ReturnCodes : child_exit(t, c))

Errored(t) == loc[t].failed \in {"spawn", "read"}

CompletionAt(t) ==
    IF Has(ev[t], "completion")
    THEN CHOOSE i \in 1 .. Len(ev[t]) : ev[t][i] = "completion"
    ELSE 0

\* C11: a run whose child exited with code c broadcasts its data chunks, then
\* one completion marker holding c, which it also appends to the replay buffer
\* and which every connected viewer receives, then the finished event: no
\* broadcast but the finished event follows the marker, and none follows the
\* finished event.
C11_CompletionThenFinished ==
    /\ [](\A t \in Runs :
            /\ \A i \in 1 .. Len(ev[t]) - 1 : ev[t][i] # "finished"
            /\ CompletionAt(t) # 0 =>
                  /\ \A i \in 1 .. Len(ev[t]) :
                        i > CompletionAt(t) => (ev[t][i] = "finished" /\ i = Len(ev[t]))
                  /\ \A i \in 1 .. CompletionAt(t) - 1 :
                        ev[t][i] \in {"started", "info", "data"}
            /\ (pc[t] = "done" /\ child[t].spawned) =>
                  /\ Len(ev[t]) >= 2
                  /\ ev[t][Len(ev[t]) - 1] = "completion"
                  /\ Last(ev[t]) = "finished")
    /\ [][\A t \in Runs :
            run_completion_msg(t) =>
                LET m == CompletionMsg(t, child[t].code)
                IN /\ ~child[t].alive
                   /\ terminal_data' = add_data(terminal_data, m)
                   /\ \A v \in Viewers :
                        view[v].connected => view'[v].term = Cat(view[v].term, m)]_vars

\* A run whose child printed and exited with code 1 has ended: data, then the
\* marker, which is in the buffer and on a viewer's page, then finished.
C11_Witness ==
    \E t \in Runs :
        /\ pc[t] = "done"
        /\ child[t].code = 1
        /\ Has(ev[t], "data")
        /\ ev[t][Len(ev[t]) - 1] = "completion"
        /\ Has(terminal_data, CompletionMsg(t, 1)[1])
        /\ \E v \in Viewers : Has(view[v].term, CompletionMsg(t, 1)[1])

\* C12: once shutdown has run, every child of the session that is alive has
\* been sent the termination signal, whatever the point of the run at which
\* the shutdown arrived.
C12_ShutdownSignalsChild ==
    exited => \A t \in Runs : child[t].alive => child[t].sigterm

\* C13: after shutdown a child that was sent the termination signal and lives
\* on is force-terminated after a while, and the PTY descriptors of the session
\* are released.
C13_ShutdownForcesTermination ==
    /\ \A t \in Runs :
          (exited /\ child[t].alive /\ child[t].sigterm) ~> ~child[t].alive
    /\ [](exited => \A f \in Fds : fdtab[f] = 0)

\* A run has been accepted and has not finished: a request is about to start
\* its thread, or a run thread has not ended.
RunPending == Active # {} \/ \E w \in Viewers : h[w].pc = "r356"

\* C14: the button_state a viewer gets when it attaches, from handle_connect
\* and from handle_request_state, has disabled true exactly when a run has been
\* accepted and has not finished.
C14_ButtonReflectsRunState ==
    [][\A v \in Viewers :
         /\ handle_connect(v) => view'[v].btn = RunPending
         /\ handle_request_state_read(v) => h'[v].saw = RunPending]_vars

\* A started or finished event, or a button_state whose value has been read, is
\* on its way to the viewers.
ButtonInFlight ==
    \/ \E t \in Runs : pc[t] \in {"l369", "l477", "l478", "l479"}
    \/ \E w \in Viewers : h[w].pc = "rs344e"

\* C19: when no message is in flight, the run button of every attached viewer
\* is disabled exactly when is_running is up.
C19_ButtonEqualsFlag ==
    ~ButtonInFlight =>
        \A v \in Viewers :
            (view[v].connected /\ h[v].pc \notin {"rs342", "rs343", "rs344"})
                => view[v].btn = is_running

\* C16: add_data(d) on a buffer b leaves b followed by d when that is no longer
\* than the cap, and otherwise the last 512 KiB of b followed by d;
\* get_terminal_data returns the encoding of the whole buffer, which decodes to
\* it, and leaves the buffer as it is.
C16_AddDataExact ==
    [][/\ \A n \in AppendSizes :
            buffer_add(n) =>
                LET d == Chunk("append", Len(hist) + 1, n, n)
                    full == Cat(terminal_data, d)
                IN IF BLen(terminal_data) + n <= Cap
                   THEN terminal_data' = full
                   ELSE /\ BLen(terminal_data') = Floor
                        /\ IsSuffix(terminal_data', full)
       /\ buffer_snapshot =>
            /\ atob(h'[1].snap) = terminal_data
            /\ h'[1].snap = b64encode(terminal_data)
            /\ terminal_data' = terminal_data]_vars

\* A snapshot was taken of a buffer that had been cut back to the floor in
\* the middle of a chunk.
C16_Witness ==
    /\ BLen(terminal_data) = Floor
    /\ Len(hist) >= 2
    /\ terminal_data[1].lo > 0
    /\ atob(h[1].snap) = terminal_data

\* A clear_data has been done and its cleared event is not broadcast yet.
ClearInFlight == \E w \in Viewers : h[w].pc = "cl363"

\* C17: when no chunk is between its append and its broadcast, no clear between
\* clear_data and its cleared event, and the output is below the cap, the page
\* of every viewer attached since the start shows the bytes of the replay
\* buffer.
C17_PageEqualsBuffer ==
    (~PairInFlight /\ ~ClearInFlight /\ BLen(Flat(hist)) <= Cap)
        => \A v \in Viewers :
              view[v].connected => Stream(view[v].term) = terminal_data

\* C18: the descriptor a run opened is closed when its thread has ended, and
\* while a run holds a descriptor or a child the shared master_fd and process
\* fields are the ones it set: no other run clears or replaces them.
C18_DescriptorsOwned ==
    \A t \in Runs :
        /\ pc[t] = "done" => \A f \in Fds : fdtab[f] # t
        /\ (loc[t].fd # 0 /\ pc[t] \notin {"l374", "l479"}) => master_fd = loc[t].fd
        /\ (loc[t].proc # 0 /\ pc[t] \notin {"l415", "l478", "l479"})
              => process = loc[t].proc

====
